---------------------------- MODULE Spec2Model ----------------------------
(***************************************************************************)
(* A model of the availability checker of lib/adapter-system.js (class     *)
(* AdapterSystem) and of the POST /api/check-availability handler that     *)
(* fans a batch of places out over it.                                     *)
(*                                                                         *)
(* JavaScript strings are sequences of one-character strings, so that      *)
(* toLowerCase, includes, split, trim and replace are computed, not        *)
(* assumed.  A JavaScript object is a record whose DOMAIN is the set of    *)
(* properties it has: a property that is undefined is a field that is not  *)
(* in the DOMAIN.                                                          *)
(***************************************************************************)
EXTENDS Integers, Sequences, FiniteSets, TLC

VARIABLES
    adapters,   \* this.adapters: the registry, in its enumeration order
    rateLimits, \* this.rateLimits: adapter name -> time of the last scrape
    now,        \* Date.now()
    place,      \* the place handed to findAdapter
    found,      \* what findAdapter returned for it
    source,     \* the adapter handed to parseAvailability
    body,       \* the page handed to parseAvailability
    stage,      \* where parseAvailability stands
    parsed,     \* the result parseAvailability has built so far, or the
                \* record of the one check that is running
    req,        \* the requests to POST /api/check-availability, by arrival
    served      \* adapter name -> when its site last served a page whole

vars == <<adapters, rateLimits, now, place, found, source, body, stage, parsed,
          req, served>>

---------------------------------------------------------------------------
(* Strings *)

Has(obj, f) == f \in DOMAIN obj

UpperLetters == <<"A","B","C","D","E","F","G","H","I","J","K","L","M",
                  "N","O","P","Q","R","S","T","U","V","W","X","Y","Z">>

LowerLetters == <<"a","b","c","d","e","f","g","h","i","j","k","l","m",
                  "n","o","p","q","r","s","t","u","v","w","x","y","z">>

UpperIndex(c) == { k \in 1..Len(UpperLetters) : UpperLetters[k] = c }

LowerChar(c) ==
    IF UpperIndex(c) = {} THEN c ELSE LowerLetters[CHOOSE k \in UpperIndex(c) : TRUE]

\* String.prototype.toLowerCase
ToLowerCase(s) == [i \in 1..Len(s) |-> LowerChar(s[i])]

\* the occurrences of t in s, as the index before each
Occurrences(s, t) ==
    { i \in 0..(Len(s) - Len(t)) : SubSeq(s, i + 1, i + Len(t)) = t }

\* String.prototype.includes
Includes(s, t) == Occurrences(s, t) # {}

Min(S) == CHOOSE x \in S : \A y \in S : x <= y

\* String.prototype.split, for a separator of one character
RECURSIVE Split(_, _)
Split(s, sep) ==
    IF \A i \in 1..Len(s) : s[i] # sep
    THEN <<s>>
    ELSE LET k == Min({ i \in 1..Len(s) : s[i] = sep })
         IN  <<SubSeq(s, 1, k - 1)>> \o Split(SubSeq(s, k + 1, Len(s)), sep)

\* String.prototype.trim (the only white space of the model is the blank)
RECURSIVE Trim(_)
Trim(s) ==
    IF s = <<>> THEN s
    ELSE IF Head(s) = " " THEN Trim(Tail(s))
    ELSE IF s[Len(s)] = " " THEN Trim(SubSeq(s, 1, Len(s) - 1))
    ELSE s

---------------------------------------------------------------------------
(* new URL(x).hostname, for the http and https URLs the places and the     *)
(* adapters carry: the scheme, then the host up to the first of / ? # :    *)
(* lower-cased.  Anything else makes the constructor throw.                *)

SchemeHttps == <<"h","t","t","p","s",":","/","/">>
SchemeHttp  == <<"h","t","t","p",":","/","/">>

UrlRest(u) ==
    LET l == ToLowerCase(u)
    IN  IF Len(l) >= Len(SchemeHttps) /\ SubSeq(l, 1, Len(SchemeHttps)) = SchemeHttps
        THEN SubSeq(l, Len(SchemeHttps) + 1, Len(l))
        ELSE IF Len(l) >= Len(SchemeHttp) /\ SubSeq(l, 1, Len(SchemeHttp)) = SchemeHttp
        THEN SubSeq(l, Len(SchemeHttp) + 1, Len(l))
        ELSE <<>>

Hostname(u) ==
    LET r    == UrlRest(u)
        ends == { i \in 1..Len(r) : r[i] \in {"/", "?", "#", ":"} }
    IN  IF ends = {} THEN r ELSE SubSeq(r, 1, Min(ends) - 1)

UrlThrows(u) == Hostname(u) = <<>>

---------------------------------------------------------------------------
(* Words and names *)

SP == <<" ">>
W_Toronto    == <<"T","o","r","o","n","t","o">>
W_Hamilton   == <<"H","a","m","i","l","t","o","n">>
W_Public     == <<"P","u","b","l","i","c">>
W_Library    == <<"L","i","b","r","a","r","y">>
W_University == <<"U","n","i","v","e","r","s","i","t","y">>
W_York       == <<"Y","o","r","k">>
W_Indigo     == <<"I","n","d","i","g","o">>
W_Chapters   == <<"C","h","a","p","t","e","r","s">>
W_Amazon     == <<"A","m","a","z","o","n">>

\* the adapter names the pattern table of findAdapter refers to
TorontoPublicLibrary  == W_Toronto \o SP \o W_Public \o SP \o W_Library
HamiltonPublicLibrary == W_Hamilton \o SP \o W_Public \o SP \o W_Library
YorkUniversityLibrary == W_York \o SP \o W_University \o SP \o W_Library
IndigoChapters        == W_Indigo \o <<"/">> \o W_Chapters

---------------------------------------------------------------------------
(* findAdapter *)

\* place.name.toLowerCase() throws a TypeError when the place has no name
PlaceNameThrows(p) == ~Has(p, "name")

PlaceName(p) == ToLowerCase(p.name)

\* (place.vicinity || '').toLowerCase()
PlaceVicinity(p) == IF Has(p, "vicinity") THEN ToLowerCase(p.vicinity) ELSE <<>>

\* rule 1: the direct name match, in either direction
DirectNameMatch(adapterName, placeName) ==
    Includes(placeName, adapterName) \/ Includes(adapterName, placeName)

\* adapterName.split(' ').filter(term => term.length > 3)
KeyTerms(adapterName) ==
    LET terms == Split(adapterName, " ")
    IN  { terms[i] : i \in { j \in 1..Len(terms) : Len(terms[j]) > 3 } }

\* rule 2: at least one key term in the place's name or vicinity
KeyTermMatch(adapterName, placeName, placeVicinity) ==
    \E term \in KeyTerms(adapterName) :
        Includes(placeName, term) \/ Includes(placeVicinity, term)

\* the first loop over the registry: for each adapter in enumeration order,
\* rule 1 and then rule 2, returning at the first that fires
NameLoopHits(reg, p) ==
    { i \in 1..Len(reg) :
        LET adapterName == ToLowerCase(reg[i].name)
        IN  \/ DirectNameMatch(adapterName, PlaceName(p))
            \/ KeyTermMatch(adapterName, PlaceName(p), PlaceVicinity(p)) }

\* the second loop, inside its try: the indices at which it returns (hits)
\* and those at which new URL(adapter.base_url) throws (bad)
DomainHits(reg, p) ==
    IF ~(Has(p, "website") /\ p.website # <<>>) THEN {}
    ELSE IF UrlThrows(p.website) THEN {}
    ELSE LET domain == Hostname(p.website)
             based  == { i \in 1..Len(reg) :
                           Has(reg[i], "base_url") /\ reg[i].base_url # <<>> }
             bad    == { i \in based : UrlThrows(reg[i].base_url) }
             hit    == { i \in based \ bad :
                           LET adapterDomain == Hostname(reg[i].base_url)
                           IN  \/ Includes(domain, adapterDomain)
                               \/ Includes(adapterDomain, domain) }
         IN  { i \in hit : \A j \in bad : i < j }

\* a regular expression of the pattern table: alternatives, each a sequence
\* of literals separated by .* ; the table's flag i is met by testing the
\* lower-cased name and vicinity against lower-case literals
RECURSIVE MatchParts(_, _)
MatchParts(s, parts) ==
    IF parts = <<>> THEN TRUE
    ELSE \E i \in Occurrences(s, Head(parts)) :
            MatchParts(SubSeq(s, i + Len(Head(parts)) + 1, Len(s)), Tail(parts))

RegexTest(alternatives, s) ==
    \E k \in 1..Len(alternatives) : MatchParts(s, alternatives[k])

libraryPatterns ==
    << [pattern |-> << <<ToLowerCase(W_Public \o SP \o W_Library)>> >>,
        adapter |-> TorontoPublicLibrary],
       [pattern |-> << <<ToLowerCase(W_Hamilton), ToLowerCase(W_Library)>> >>,
        adapter |-> HamiltonPublicLibrary],
       [pattern |-> << <<ToLowerCase(W_University), ToLowerCase(W_Library)>> >>,
        adapter |-> (W_University \o SP \o <<"o","f">> \o SP \o W_Toronto \o SP \o W_Library)],
       [pattern |-> << <<ToLowerCase(W_York), ToLowerCase(W_Library)>> >>,
        adapter |-> YorkUniversityLibrary],
       [pattern |-> << <<ToLowerCase(W_Indigo)>>, <<ToLowerCase(W_Chapters)>> >>,
        adapter |-> IndigoChapters],
       [pattern |-> << <<ToLowerCase(W_Amazon)>> >>,
        adapter |-> (W_Amazon \o SP \o <<"C","a","n","a","d","a">>)] >>

PatternHits(p) ==
    { k \in 1..Len(libraryPatterns) :
        \/ RegexTest(libraryPatterns[k].pattern, PlaceName(p))
        \/ RegexTest(libraryPatterns[k].pattern, PlaceVicinity(p)) }

\* a variant that falls back on the first adapter of the registry when the
\* named one is not there
GetOrFirst(reg, name) ==
    IF \E i \in 1..Len(reg) : reg[i].name = name
    THEN [kind |-> "adapter",
          adapter |-> reg[CHOOSE i \in 1..Len(reg) : reg[i].name = name]]
    ELSE IF reg # <<>> THEN [kind |-> "adapter", adapter |-> reg[1]]
    ELSE [kind |-> "undefined"]

\* this.adapters.get(name): the record, or undefined
AdaptersGet(reg, name) ==
    IF \E i \in 1..Len(reg) : reg[i].name = name
    THEN [kind |-> "adapter",
          adapter |-> reg[CHOOSE i \in 1..Len(reg) : reg[i].name = name]]
    ELSE [kind |-> "undefined"]

\* findAdapter(place): an adapter, null, undefined, or a thrown TypeError
findAdapter(reg, p) ==
    IF PlaceNameThrows(p) THEN [kind |-> "throw"]
    ELSE IF NameLoopHits(reg, p) # {}
    THEN [kind |-> "adapter", adapter |-> reg[Min(NameLoopHits(reg, p))]]
    ELSE IF DomainHits(reg, p) # {}
    THEN [kind |-> "adapter", adapter |-> reg[Min(DomainHits(reg, p))]]
    ELSE IF PatternHits(p) # {}
    THEN AdaptersGet(reg, libraryPatterns[Min(PatternHits(p))].adapter)
    ELSE [kind |-> "null"]

---------------------------------------------------------------------------
(* JavaScript values that may be null, undefined or not a string *)

Null      == [t |-> "null"]
Undefined == [t |-> "undefined"]
Str(s)    == [t |-> "string", v |-> s]
Msg(m)    == [t |-> "string", msg |-> m]
NotString == [t |-> "object"]

IsString(x) == x.t = "string"

\* the truthiness of a value: the empty string, null and undefined are falsy
Truthy(x) ==
    CASE x.t = "string" -> x.v # <<>>
      [] x.t = "object" -> TRUE
      [] OTHER          -> FALSE

\* obj.f, and obj?.f for an obj that may be undefined
Get(obj, f) == IF Has(obj, f) THEN obj[f] ELSE Undefined

\* a || b
Or(a, b) == IF Truthy(a) THEN a ELSE b

---------------------------------------------------------------------------
(* The classifier.  A confidence is held in tenths: 8 is 0.8. *)

W_Available  == <<"A","v","a","i","l","a","b","l","e">>
W_Book       == <<"B","o","o","k">>
W_Product    == <<"P","r","o","d","u","c","t">>
W_Visit      == <<"V","i","s","i","t">>
W_CheckedOut == <<"C","h","e","c","k","e","d"," ","O","u","t">>

\* adapter.status_keywords?.available || [], and the like
Keywords(adapter, group, side) ==
    IF Has(adapter, group) /\ Has(adapter[group], side)
    THEN adapter[group][side]
    ELSE <<>>

\* classifyAvailability(availability, adapter), for a string
classifyAvailability(availability, adapter) ==
    LET availabilityLower == ToLowerCase(availability)
        hit(kws) == \E k \in 1..Len(kws) :
                        Includes(availabilityLower, ToLowerCase(kws[k]))
    IN  IF hit(Keywords(adapter, "status_keywords", "available"))
        THEN [status |-> "available", copies |-> 1, confidence |-> 8]
        ELSE IF hit(Keywords(adapter, "status_keywords", "unavailable"))
        THEN [status |-> "unavailable", copies |-> 0, confidence |-> 8]
        ELSE [status |-> "unknown", copies |-> 0, confidence |-> 3]

\* extractFromStructuredData(data, adapter): a result, or a thrown TypeError
\* (availability.toLowerCase is not a function) that the caller catches
extractFromStructuredData(data, adapter) ==
    IF Get(data, "type") \in {Str(W_Book), Str(W_Product)}
    THEN LET availability == Or(Get(Get(data, "offers"), "availability"),
                                Get(data, "availability"))
             price        == Or(Get(Get(data, "offers"), "price"),
                                Get(data, "price"))
         IN  IF Truthy(availability)
             THEN IF ~IsString(availability)
                  THEN [kind |-> "throw"]
                  ELSE LET status == classifyAvailability(availability.v, adapter)
                       IN  [kind |-> "ok",
                            result |->
                              [status |-> status.status,
                               copies_available |-> status.copies,
                               price |-> IF Truthy(price) THEN price ELSE Null,
                               confidence |-> status.confidence]]
             ELSE [kind |-> "ok", result |-> [confidence |-> 0]]
    ELSE [kind |-> "ok", result |-> [confidence |-> 0]]

\* adapter.structured_data?.json_ld, and ?.schema_org
Flag(adapter, f) ==
    Has(adapter, "structured_data") /\ Has(adapter.structured_data, f)
        /\ adapter.structured_data[f]

\* parseStructuredData(html, adapter).  page.jsonld is what the script
\* regular expression finds in the page, each block with what JSON.parse
\* makes of it: a failure to parse, or the object.
parseStructuredData(page, adapter) ==
    LET blocks   == page.jsonld
        accepted == { k \in 1..Len(blocks) :
                        /\ blocks[k].parse = "ok"
                        /\ extractFromStructuredData(blocks[k].data, adapter).kind = "ok"
                        /\ extractFromStructuredData(blocks[k].data, adapter)
                               .result.confidence > 5 }
    IN  IF Flag(adapter, "json_ld") /\ accepted # {}
        THEN extractFromStructuredData(blocks[Min(accepted)].data, adapter).result
        ELSE [confidence |-> 0]

---------------------------------------------------------------------------
(* parseHTML.  The regular expressions a configuration can hold are, in    *)
(* the model, literals: new RegExp(pattern, 'gi') matches a page that      *)
(* holds the pattern in any case.  A pattern that holds a "(" is an        *)
(* unterminated group, on which new RegExp throws a SyntaxError.           *)

RegExpThrows(pattern) == \E i \in 1..Len(pattern) : pattern[i] = "("

\* html.match(new RegExp(pattern, 'gi')) is not null
RegExpMatch(page_html, pattern) ==
    Includes(ToLowerCase(page_html), ToLowerCase(pattern))

\* adapter.selectors?.<side>, when it is truthy: split(',') and trim
SelectorPatterns(adapter, side) ==
    IF Has(adapter, "selectors") /\ Has(adapter.selectors, side)
           /\ adapter.selectors[side] # <<>>
    THEN LET raw == Split(adapter.selectors[side], ",")
         IN  [k \in 1..Len(raw) |-> Trim(raw[k])]
    ELSE <<>>

\* one selector loop: "match" when a pattern matches before any throws,
\* "throw" when new RegExp throws first, "none" when the loop runs out
SelectorLoop(page_html, patterns) ==
    LET events == { k \in 1..Len(patterns) :
                      \/ RegExpThrows(patterns[k])
                      \/ RegExpMatch(page_html, patterns[k]) }
    IN  IF events = {} THEN "none"
        ELSE IF RegExpThrows(patterns[Min(events)]) THEN "throw"
        ELSE "match"

\* the result parseHTML starts from
InitialResult(url) ==
    [status |-> "unknown", copies_available |-> 0, price |-> Null,
     branch |-> Null, call_number |-> Null, url |-> url, confidence |-> 0]

\* the available selectors
AfterAvailable(page_html, adapter, url) ==
    IF SelectorLoop(page_html, SelectorPatterns(adapter, "available")) = "match"
    THEN [InitialResult(url) EXCEPT !.status = "available",
                                    !.confidence = 8,
                                    !.copies_available = 1]
    ELSE InitialResult(url)

\* a variant that lets the available selectors keep what they found: with
\* it the unavailable selectors no longer override
UnavailableUnlessAvailable(page_html, adapter, url) ==
    IF /\ AfterAvailable(page_html, adapter, url).status = "unknown"
       /\ SelectorLoop(page_html, SelectorPatterns(adapter, "unavailable")) = "match"
    THEN [AfterAvailable(page_html, adapter, url) EXCEPT !.status = "unavailable",
                                                        !.confidence = 8]
    ELSE AfterAvailable(page_html, adapter, url)

\* then the unavailable selectors, whatever the available ones found
AfterUnavailable(page_html, adapter, url) ==
    IF SelectorLoop(page_html, SelectorPatterns(adapter, "unavailable")) = "match"
    THEN [AfterAvailable(page_html, adapter, url) EXCEPT !.status = "unavailable",
                                                        !.confidence = 8]
    ELSE AfterAvailable(page_html, adapter, url)

\* then the special handling of the adapter named Hamilton Public Library
AfterSpecialHandling(page_html, adapter, url) ==
    LET r == AfterUnavailable(page_html, adapter, url)
    IN  IF adapter.name # HamiltonPublicLibrary THEN r
        ELSE IF /\ Includes(page_html, W_Available)
                /\ Includes(page_html, W_Book)
                /\ Includes(page_html, W_Visit)
        THEN [r EXCEPT !.status = "available", !.confidence = 9,
                       !.copies_available = 1]
        ELSE IF Includes(page_html, (<<"A","l","l"," ","c","o","p","i","e","s"," ","i","n"," ","u","s","e">>)) \/ Includes(page_html, W_CheckedOut)
        THEN [r EXCEPT !.status = "unavailable", !.confidence = 9]
        ELSE r

\* whether one of the two selector loops throws
SelectorsThrow(page_html, adapter) ==
    \/ SelectorLoop(page_html, SelectorPatterns(adapter, "available")) = "throw"
    \/ SelectorLoop(page_html, SelectorPatterns(adapter, "unavailable")) = "throw"

\* the number of keywords of the list that the text holds
KeywordScore(text, kws) ==
    Cardinality({ k \in 1..Len(kws) : Includes(text, ToLowerCase(kws[k])) })

\* a variant without the cap: score * 0.2, in tenths
UncappedConfidence(score) == 2 * score

\* Math.min(0.7, score * 0.2), in tenths
KeywordConfidence(score) == IF 2 * score < 7 THEN 2 * score ELSE 7

classifyByKeywords(page_html, adapter) ==
    LET text             == ToLowerCase(page_html)
        availableScore   == KeywordScore(text, Keywords(adapter, "fallback_keywords", "available"))
        unavailableScore == KeywordScore(text, Keywords(adapter, "fallback_keywords", "unavailable"))
    IN  IF availableScore > unavailableScore /\ availableScore > 0
        THEN [status |-> "available", confidence |-> KeywordConfidence(availableScore)]
        ELSE IF unavailableScore > availableScore /\ unavailableScore > 0
        THEN [status |-> "unavailable", confidence |-> KeywordConfidence(unavailableScore)]
        ELSE [status |-> "unknown", confidence |-> 0]

\* a variant in which the keyword fallback also counts a copy for a page
\* it classifies as available
KeywordCountsCopy(r, page_html, adapter) ==
    LET keywordResult == classifyByKeywords(page_html, adapter)
    IN  IF r.confidence < 5 /\ keywordResult.confidence > r.confidence
        THEN [r EXCEPT !.status = keywordResult.status,
                       !.confidence = keywordResult.confidence,
                       !.copies_available =
                           IF keywordResult.status = "available" THEN 1 ELSE 0]
        ELSE r

\* the keyword fallback at the end of parseHTML
KeywordFallback(r, page_html, adapter) ==
    LET keywordResult == classifyByKeywords(page_html, adapter)
    IN  IF r.confidence < 5 /\ keywordResult.confidence > r.confidence
        THEN [r EXCEPT !.status = keywordResult.status,
                       !.confidence = keywordResult.confidence]
        ELSE r

\* parseHTML(html, adapter, url): its result, or the SyntaxError it throws
parseHTML(page_html, adapter, url) ==
    IF SelectorsThrow(page_html, adapter)
    THEN [kind |-> "throw"]
    ELSE [kind |-> "ok",
          result |-> KeywordFallback(AfterSpecialHandling(page_html, adapter, url),
                                     page_html, adapter)]

\* whether parseAvailability returns what the structured data stage found
StructuredAccepted(adapter, page) ==
    /\ Flag(adapter, "schema_org") \/ Flag(adapter, "json_ld")
    /\ parseStructuredData(page, adapter).confidence > 5

\* parseAvailability(adapter, html, url)
parseAvailability(adapter, page, url) ==
    IF StructuredAccepted(adapter, page)
    THEN [kind |-> "ok", result |-> parseStructuredData(page, adapter)]
    ELSE parseHTML(page.html, adapter, url)

---------------------------------------------------------------------------
(* The rate limiter.  Times are milliseconds, as Date.now() gives them. *)

\* this.rateLimits.get(name), when it is there and not 0
LastRequest(rl, name) == IF name \in DOMAIN rl THEN rl[name] ELSE 0

\* (adapter?.rate_limit || 1) * 1000, for adapter = this.adapters.get(name)
RateLimitMs(reg, name) ==
    LET a == AdaptersGet(reg, name)
    IN  IF a.kind = "adapter" /\ Has(a.adapter, "rate_limit") /\ a.adapter.rate_limit # 0
        THEN a.adapter.rate_limit * 1000
        ELSE 1000

\* a variant that takes the rate limit for milliseconds: it forgets * 1000
LimitedForSeconds(reg, rl, name, t) ==
    IF LastRequest(rl, name) = 0 THEN FALSE
    ELSE 1000 * (t - LastRequest(rl, name)) < RateLimitMs(reg, name)

isRateLimited(reg, rl, name, t) ==
    IF LastRequest(rl, name) = 0 THEN FALSE
    ELSE t - LastRequest(rl, name) < RateLimitMs(reg, name)

\* a variant in which the first write for an adapter stays: a later check
\* of the same adapter does not overwrite it
KeepsFirstWrite(rl, name, t) ==
    IF name \in DOMAIN rl THEN rl
    ELSE [n \in DOMAIN rl \cup {name} |-> IF n = name THEN t ELSE rl[n]]

\* this.rateLimits.set(adapterName, Date.now())
updateRateLimit(rl, name, t) ==
    [n \in DOMAIN rl \cup {name} |-> IF n = name THEN t ELSE rl[n]]

---------------------------------------------------------------------------
(* scrapeAvailability and checkBookAvailability *)

Placeholder == <<"{","i","s","b","n","}">>

\* the replacement text of String.prototype.replace, in which $$ is a dollar
\* and $& the match (the model's texts hold no other dollar pattern)
DollarPattern(repl) ==
    Len(repl) >= 2 /\ repl[1] = "$" /\ repl[2] \in {"$", "&"}

RECURSIVE Expand(_, _)
Expand(repl, matched) ==
    IF repl = <<>> THEN <<>>
    ELSE LET first == IF ~DollarPattern(repl) THEN <<Head(repl)>>
                      ELSE IF repl[2] = "$" THEN <<"$">> ELSE matched
             rest  == IF DollarPattern(repl) THEN SubSeq(repl, 3, Len(repl))
                      ELSE Tail(repl)
         IN  first \o Expand(rest, matched)

\* s.replace(pattern, repl) for a string pattern: the first occurrence only
Replace(s, pattern, repl) ==
    IF ~Includes(s, pattern) THEN s
    ELSE LET i      == Min(Occurrences(s, pattern))
             before == SubSeq(s, 1, i)
             after  == SubSeq(s, i + Len(pattern) + 1, Len(s))
         IN  before \o Expand(repl, pattern) \o after


\* the template literal: adapter.base_url, then
\* adapter.search_endpoint.replace('{isbn}', isbn)
SearchUrl(adapter, isbn) ==
    (IF Has(adapter, "base_url") THEN adapter.base_url ELSE <<"u","n","d","e","f","i","n","e","d">>)
        \o Replace(adapter.search_endpoint, Placeholder, isbn)

\* source: place.name, a property that is undefined when the place has no name
WithSource(p, r) ==
    IF Has(p, "name")
    THEN [f \in DOMAIN r \cup {"source"} |-> IF f = "source" THEN p.name ELSE r[f]]
    ELSE r

\* the record the orchestrator writes for an outcome that is not a scrape
PlainResult(p, isbn, status, error, t) ==
    WithSource(p, [isbn |-> isbn, status |-> status, copies_available |-> 0,
                   price |-> Null, branch |-> Null, call_number |-> Null,
                   url |-> Null, last_checked |-> t, confidence |-> 0,
                   error |-> error])

\* { isbn, source: adapter.name, ...result, last_checked }
ScrapedResult(adapter, isbn, r, t) ==
    [f \in DOMAIN r \cup {"isbn", "source", "last_checked"} |->
        CASE f = "last_checked" -> t
          [] f \in DOMAIN r     -> r[f]
          [] f = "isbn"         -> isbn
          [] OTHER              -> adapter.name]

\* the ways a fetch ends without a page, and the message of each
FetchFailures == {"timeout", "http"}

FailureMessage(kind) ==
    CASE kind = "timeout"   -> Msg("Scraping failed: Request timeout after 15 seconds")
      [] kind = "http"      -> Msg("Scraping failed: HTTP 503: Service Unavailable")
      [] kind = "transport" -> Msg("Scraping failed: request failed")
      [] kind = "syntax"    -> Msg("Scraping failed: Invalid regular expression")

\* checkBookAvailability up to its await: the check is rejected (findAdapter
\* threw), done with a result, or waiting for its fetch
CheckWith(f, reg, rl, p, isbn, t) ==
    IF f.kind = "throw"
    THEN [pc |-> "rejected",
          reason |-> Msg("Cannot read properties of undefined (reading 'toLowerCase')")]
    ELSE IF f.kind # "adapter"
    THEN [pc |-> "done", fetched |-> FALSE,
          result |-> PlainResult(p, isbn, "unknown",
                                 Msg("No adapter found for this location"), t)]
    ELSE IF isRateLimited(reg, rl, f.adapter.name, t)
    THEN [pc |-> "done", fetched |-> FALSE, adapter |-> f.adapter,
          result |-> PlainResult(p, isbn, "rate_limited",
                                 Msg("Rate limited - please try again later"), t)]
    ELSE IF ~Has(f.adapter, "search_endpoint")
    THEN [pc |-> "done", fetched |-> FALSE, adapter |-> f.adapter,
          result |-> PlainResult(p, isbn, "error",
                                 Msg("Cannot read properties of undefined (reading 'replace')"), t)]
    ELSE [pc |-> "fetching", fetched |-> TRUE, adapter |-> f.adapter,
          url |-> SearchUrl(f.adapter, isbn)]

CheckStart(reg, rl, p, isbn, t) == CheckWith(findAdapter(reg, p), reg, rl, p, isbn, t)

\* the catch of checkBookAvailability, after a fetch that failed
CheckFailed(c, p, isbn, kind, t) ==
    [pc |-> "done", fetched |-> TRUE, adapter |-> c.adapter, failure |-> kind,
     result |-> PlainResult(p, isbn, "error", FailureMessage(kind), t)]

\* what the page is classified as once response.text() has given it
ParsedWith(pa, c, p, isbn, t) ==
    IF pa.kind = "throw"
    THEN CheckFailed(c, p, isbn, "syntax", t)
    ELSE [pc |-> "done", fetched |-> TRUE, adapter |-> c.adapter,
          result |-> ScrapedResult(c.adapter, isbn, pa.result, t)]

CheckParsed(c, p, isbn, page, t) ==
    ParsedWith(parseAvailability(c.adapter, page, Str(c.url)), c, p, isbn, t)

\* a variant that counts every check that went to the network, whether
\* scrapeAvailability returned or threw
WentToNetwork(c) == c.pc = "done" /\ c.fetched

\* whether the check, now done, came back from scrapeAvailability
Scraped(c) == c.pc = "done" /\ c.fetched /\ ~Has(c, "failure")

\* the rate-limit table once the await of scrapeAvailability is over:
\* updateRateLimit runs when it returned, not when it threw
AfterCheck(rl, c, t) ==
    IF Scraped(c) THEN updateRateLimit(rl, c.adapter.name, t) ELSE rl

---------------------------------------------------------------------------
(* Bounds and inputs *)

MaxAdapters == 3

\* the sequences without repetition of at most n elements of S
Arrangements(S, n) ==
    { s \in UNION { [1..k -> S] : k \in 0..n } :
        \A i, j \in 1..Len(s) : i # j => s[i] # s[j] }

B_Hpl    == <<"h","t","t","p","s",":","/","/","h","p","l",".","c","a">>
E_Search == <<"/","s","e","a","r","c","h","?","i","s","b","n","=","{","i","s","b","n","}">>

K_instock      == <<"i","n","s","t","o","c","k">>
K_outofstock   == <<"o","u","t","o","f","s","t","o","c","k">>
K_in_stock     == <<"i","n"," ","s","t","o","c","k">>
K_out_of_stock == <<"o","u","t"," ","o","f"," ","s","t","o","c","k">>
K_available    == <<"a","v","a","i","l","a","b","l","e">>
K_on_shelf     == <<"o","n"," ","s","h","e","l","f">>
K_sold_out     == <<"s","o","l","d"," ","o","u","t">>

\* the parts an adapter file may declare
StructuredOptions ==
    { [json_ld |-> TRUE], [schema_org |-> TRUE],
      [json_ld |-> FALSE, schema_org |-> FALSE] }

SelectorOptions ==
    { [available |-> K_in_stock \o <<",", " ">> \o K_on_shelf,
       unavailable |-> K_out_of_stock],
      [available |-> K_in_stock \o <<",", "(">>,
       unavailable |-> K_out_of_stock],
      [available |-> K_in_stock,
       unavailable |-> <<"(", ",">> \o K_out_of_stock] }

FallbackOptions ==
    { [available |-> <<K_available, K_on_shelf, K_in_stock>>,
       unavailable |-> <<<<"c","h","e","c","k","e","d"," ","o","u","t">>, K_sold_out>>],
      [available |-> <<K_available, K_available, K_on_shelf, K_on_shelf,
                       K_in_stock, K_in_stock>>,
       unavailable |-> <<K_sold_out>>] }

StatusOptions ==
    { [available |-> <<K_instock>>, unavailable |-> <<K_outofstock>>],
      [available |-> <<K_available, K_instock>>] }

\* a record with the field f set to v
With(r, f, v) == [g \in DOMAIN r \cup {f} |-> IF g = f THEN v ELSE r[g]]

\* the adapters that r grows into when it may or may not declare f
Optional(R, f, options) == R \cup { With(r, f, v) : r \in R, v \in options }

\* the adapter files of the registry
TorontoAdapter ==
    [name |-> TorontoPublicLibrary, base_url |-> <<"h","t","t","p","s",":","/","/","t","p","l",".","c","a">>,
     search_endpoint |-> E_Search, method |-> "GET", rate_limit |-> 1,
     selectors |-> [available |-> K_in_stock, unavailable |-> K_out_of_stock]]

HamiltonAdapter ==
    [name |-> HamiltonPublicLibrary, base_url |-> B_Hpl,
     search_endpoint |-> E_Search, method |-> "GET", rate_limit |-> 2,
     structured_data |-> [json_ld |-> TRUE],
     status_keywords |-> [available |-> <<K_instock>>, unavailable |-> <<K_outofstock>>],
     selectors |-> [available |-> K_in_stock, unavailable |-> K_out_of_stock]]

IndigoAdapter ==
    [name |-> IndigoChapters,
     base_url |-> <<"h","t","t","p","s",":","/","/","i","n","d","i","g","o",".","c","a">>,
     search_endpoint |-> E_Search, method |-> "GET",
     selectors |-> [available |-> K_in_stock \o <<",", "(">>],
     fallback_keywords |-> [available |-> <<K_available>>, unavailable |-> <<K_sold_out>>]]

YorkAdapter ==
    [name |-> YorkUniversityLibrary,
     base_url |-> <<"l","i","b","r","a","r","y",".","y","o","r","k","u",".","c","a">>,
     search_endpoint |-> E_Search, method |-> "GET", rate_limit |-> 0]

AdapterPool == {TorontoAdapter, HamiltonAdapter, IndigoAdapter, YorkAdapter}

N_Corner  == <<"C","o","r","n","e","r"," ","C","a","f","e">>
N_Ancaster == <<"A","n","c","a","s","t","e","r">>

PlaceNames ==
    { HamiltonPublicLibrary, TorontoPublicLibrary \o SP \o <<"A","n","n","e","x">>, N_Corner,
      <<>>, <<"I","N","D","I","G","O">>, YorkUniversityLibrary, W_Chapters \o SP \o N_Ancaster,
      W_Chapters \o SP \o W_Public \o SP \o W_Library }

\* the places a request can carry: a name (or none), and maybe a vicinity
\* and a website
PlacePool ==
    Optional(Optional({ [name |-> n] : n \in PlaceNames } \cup { [types |-> "library"] },
                      "vicinity",
                      { <<"H","a","m","i","l","t","o","n",","," ","O","N">>,
                        <<"1","2"," ","M","a","i","n"," ","S","t">> }),
             "website",
             { <<"h","t","t","p","s",":","/","/","w","w","w",".","h","p","l",".","c","a",
                 "/","v","i","s","i","t">>,
               <<"h","p","l",".","c","a">> })

---------------------------------------------------------------------------
(* findAdapter on its own: any registry order, any place *)

Pending == [kind |-> "pending"]

MatcherIdle == place = [types |-> "none"] /\ found = Pending

ServerIdle == req = << >> /\ served = << >>

ClassifierIdle ==
    source = [name |-> <<>>] /\ body = [html |-> <<>>, jsonld |-> <<>>]
        /\ stage = "idle" /\ parsed = Pending

InitMatch ==
    /\ adapters \in Arrangements(AdapterPool, MaxAdapters)
    /\ place \in PlacePool
    /\ found = Pending
    /\ rateLimits = << >>
    /\ now = 1000
    /\ ClassifierIdle
    /\ ServerIdle

Match ==
    /\ found = Pending
    /\ found' = findAdapter(adapters, place)
    /\ UNCHANGED <<adapters, rateLimits, now, place, source, body, stage, parsed,
                   req, served>>

NextMatch == Match

SpecMatch == InitMatch /\ [][NextMatch]_vars

---------------------------------------------------------------------------
(* parseAvailability on its own: any adapter file, any page *)

W_InStockText    == <<"I","n"," ","S","t","o","c","k">>
W_OutOfStockText == <<"O","u","t"," ","o","f"," ","S","t","o","c","k">>
W_InStock        == <<"I","n","S","t","o","c","k">>
W_OutOfStock     == <<"O","u","t","O","f","S","t","o","c","k">>
W_SchemaOrg      == <<"h","t","t","p","s",":","/","/","s","c","h","e","m","a",".","o","r","g","/">>
W_SoldOut        == <<"S","o","l","d"," ","o","u","t">>
W_TryAgain       == <<"T","r","y"," ","a","g","a","i","n">>
W_WebPage        == <<"W","e","b","P","a","g","e">>

\* the pages without JSON-LD
PlainPages ==
    { [html |-> h, jsonld |-> <<>>] :
        h \in { W_InStockText,
                W_InStockText \o SP \o W_OutOfStockText,
                W_Available \o SP \o W_Book \o SP \o W_Visit \o SP
                    \o W_InStockText \o SP \o W_OutOfStockText,
                W_Available \o SP \o W_Book \o SP \o W_Visit,
                W_CheckedOut,
                W_Available,
                W_Available \o SP \o W_SoldOut,
                W_Available \o SP \o <<"O","n"," ","s","h","e","l","f">> \o SP \o W_InStockText,
                W_SoldOut \o SP \o W_CheckedOut,
                W_TryAgain,
                <<>> } }

Block(data) == [parse |-> "ok", data |-> data]
Unparsed    == [parse |-> "error"]

BookInStock ==
    Block([type |-> Str(W_Book),
           offers |-> [availability |-> Str(W_SchemaOrg \o W_InStock),
                       price |-> Str(<<"1","9",".","9","9">>)]])

ProductOutOfStock ==
    Block([type |-> Str(W_Product), availability |-> Str(W_OutOfStock)])

\* the pages with JSON-LD blocks; the text of a block is part of the page
JsonLdPages ==
    { [html |-> W_Book \o SP \o W_SchemaOrg \o W_InStock,
       jsonld |-> <<BookInStock>>],
      [html |-> W_Product \o SP \o W_OutOfStock \o SP \o W_Book \o SP \o W_InStock,
       jsonld |-> <<Unparsed, ProductOutOfStock, BookInStock>>],
      [html |-> W_Book \o SP \o W_InStock \o SP \o W_OutOfStockText,
       jsonld |-> <<Unparsed, BookInStock>>],
      [html |-> W_Book,
       jsonld |-> <<Block([type |-> Str(W_Book), availability |-> NotString]),
                    Block([type |-> Str(W_Book)])>>],
      [html |-> W_Book \o SP \o W_TryAgain \o SP \o W_InStockText,
       jsonld |-> <<Block([type |-> Str(W_Book), availability |-> Str(W_TryAgain)])>>],
      [html |-> W_WebPage \o SP \o W_InStock,
       jsonld |-> <<Block([type |-> Str(W_WebPage), availability |-> Str(W_InStock)])>>] }

PagePool == PlainPages \cup JsonLdPages

\* the adapter files: a name, and any of the optional parts
ConfigPool ==
    Optional(Optional(Optional(Optional(
        { [name |-> n] : n \in {HamiltonPublicLibrary, IndigoChapters} },
        "structured_data", StructuredOptions),
        "selectors", SelectorOptions),
        "fallback_keywords", FallbackOptions),
        "status_keywords", StatusOptions)

PageUrl == Str(B_Hpl \o Replace(E_Search, Placeholder, <<"9","7","8">>))

InitClassify ==
    /\ source \in ConfigPool
    /\ body \in PagePool
    /\ stage = "start"
    /\ parsed = Pending
    /\ adapters = <<source>>
    /\ rateLimits = << >>
    /\ now = 1000
    /\ MatcherIdle
    /\ ServerIdle

\* the structured data stage of parseAvailability
StructuredStage ==
    /\ stage = "start"
    /\ IF StructuredAccepted(source, body)
       THEN parsed' = parseStructuredData(body, source) /\ stage' = "returned"
       ELSE parsed' = parsed /\ stage' = "html"
    /\ UNCHANGED <<adapters, rateLimits, now, place, found, source, body,
                   req, served>>

\* parseHTML, up to the keyword fallback
SelectorStage ==
    /\ stage = "html"
    /\ IF SelectorsThrow(body.html, source)
       THEN parsed' = parsed /\ stage' = "threw"
       ELSE parsed' = AfterSpecialHandling(body.html, source, PageUrl)
            /\ stage' = "fallback"
    /\ UNCHANGED <<adapters, rateLimits, now, place, found, source, body,
                   req, served>>

\* the keyword fallback, and the return of parseHTML
KeywordStage ==
    /\ stage = "fallback"
    /\ parsed' = KeywordFallback(parsed, body.html, source)
    /\ stage' = "returned"
    /\ UNCHANGED <<adapters, rateLimits, now, place, found, source, body,
                   req, served>>

NextClassify == StructuredStage \/ SelectorStage \/ KeywordStage

SpecClassify == InitClassify /\ [][NextClassify]_vars

---------------------------------------------------------------------------
(* POST /api/check-availability: the requests, their checks in flight, and *)
(* the responses                                                           *)

MaxRequests == 2
MaxPlaces   == 2
MaxTicks    == 1

I_isbn == <<"9","7","8","1","2","3","4","5","6","7","8","9","0">>

\* the places of the requests: two that resolve to different adapters, one
\* that resolves to none, and one without a name
ServerPlaces ==
    { [name |-> HamiltonPublicLibrary], [name |-> W_Chapters \o SP \o N_Ancaster],
      [name |-> N_Corner], [types |-> "library"] }

\* the request bodies: places and an ISBN, or one of them missing
RequestBodies ==
    { [places |-> ps, isbn |-> I_isbn] :
        ps \in UNION { [1..k -> ServerPlaces] : k \in 0..MaxPlaces } }
    \cup { [isbn |-> I_isbn], [places |-> <<[name |-> N_Corner]>>] }

\* the pages the sites serve
ServerPages ==
    { [html |-> W_InStockText, jsonld |-> <<>>],
      [html |-> W_TryAgain, jsonld |-> <<>>] }

Settled(c) == c.pc \in {"done", "rejected"}

\* a variant in the manner of Promise.all: one rejected check makes every
\* result an error
ResultsFailTogether(rq, t) ==
    [i \in 1..Len(rq.checks) |->
        IF \A j \in 1..Len(rq.checks) : rq.checks[j].pc = "done"
        THEN rq.checks[i].result
        ELSE PlainResult(rq.places[i], rq.isbn, "error",
                         Msg("Cannot read properties of undefined (reading 'toLowerCase')"), t)]

\* availabilityResults.map(...): the value of a fulfilled check, and a record
\* built from places[index] and the reason for a rejected one
Results(rq, t) ==
    [i \in 1..Len(rq.checks) |->
        IF rq.checks[i].pc = "done"
        THEN rq.checks[i].result
        ELSE PlainResult(rq.places[i], rq.isbn, "error", rq.checks[i].reason, t)]

\* the body of res.json(...)
ReportOf(isbn, results, t) ==
    [isbn |-> isbn,
     results |-> results,
     total_checked |-> Len(results),
     available_count |->
         Cardinality({ i \in 1..Len(results) : results[i].status = "available" }),
     timestamp |-> t]

Report(rq, t) == ReportOf(rq.isbn, Results(rq, t), t)

\* Promise.allSettled: the handler goes on once every check has settled
Respond(rq, t) ==
    IF \A i \in 1..Len(rq.checks) : Settled(rq.checks[i])
    THEN [rq EXCEPT !.phase = "responded",
                    !.response = [code |-> 200, report |-> Report(rq, t)]]
    ELSE rq

\* whether the site of the check's adapter served a page less than the
\* adapter's rate limit ago
Recent(reg, sv, c, t) ==
    /\ Has(c, "adapter")
    /\ c.adapter.name \in DOMAIN sv
    /\ t - sv[c.adapter.name] < RateLimitMs(reg, c.adapter.name)

\* the check, with whether its place's site served a page recently
Noted(c, reg, sv, t) == With(c, "recent", Recent(reg, sv, c, t))

\* the table as check i of the places would find it if every check before
\* it had written its adapter's timestamp on starting
WrittenBefore(reg, rl, ps, i, t) ==
    LET earlier == { findAdapter(reg, ps[j]).adapter.name :
                       j \in { k \in 1..(i - 1) : findAdapter(reg, ps[k]).kind = "adapter" } }
    IN  [n \in DOMAIN rl \cup earlier |-> IF n \in earlier THEN t ELSE rl[n]]

\* a variant in which the checks of a batch are gated in turn, each after
\* the checks before it have written their timestamps
HandleInTurn(reg, rl, sv, b, t) ==
    IF ~(Has(b, "places") /\ Has(b, "isbn") /\ b.isbn # <<>>)
    THEN [phase |-> "responded", places |-> <<>>, isbn |-> <<>>, checks |-> <<>>,
          response |-> [code |-> 400]]
    ELSE Respond([phase |-> "running", places |-> b.places, isbn |-> b.isbn,
                  checks |-> [i \in 1..Len(b.places) |->
                                Noted(CheckStart(reg, WrittenBefore(reg, rl, b.places, i, t),
                                                 b.places[i], b.isbn, t),
                                      reg, sv, t)],
                  response |-> [code |-> 0]], t)

\* the handler up to its await: the body is refused, or every place's check
\* is started, in the order of the places
Handle(reg, rl, sv, b, t) ==
    IF ~(Has(b, "places") /\ Has(b, "isbn") /\ b.isbn # <<>>)
    THEN [phase |-> "responded", places |-> <<>>, isbn |-> <<>>, checks |-> <<>>,
          response |-> [code |-> 400]]
    ELSE Respond([phase |-> "running", places |-> b.places, isbn |-> b.isbn,
                  checks |-> [i \in 1..Len(b.places) |->
                                Noted(CheckStart(reg, rl, b.places[i], b.isbn, t),
                                      reg, sv, t)],
                  response |-> [code |-> 0]], t)

Init ==
    /\ adapters = <<HamiltonAdapter, IndigoAdapter>>
    /\ rateLimits = << >>
    /\ now = 1000
    /\ req = << >>
    /\ served = << >>
    /\ MatcherIdle
    /\ ClassifierIdle

\* a request whose response has been sent: the server keeps nothing of it
Sent == [phase |-> "sent", places |-> <<>>, isbn |-> <<>>, checks |-> <<>>,
         response |-> [code |-> 0]]

\* a request arrives, once the requests before it have been responded to
Receive ==
    /\ Len(req) < MaxRequests
    /\ \A r \in 1..Len(req) : req[r].phase # "running"
    /\ \E b \in RequestBodies :
          \E rq \in {Handle(adapters, rateLimits, served, b, now)} :
              req' = Append([r \in 1..Len(req) |-> Sent], rq)
    /\ UNCHANGED <<adapters, rateLimits, now, served,
                   place, found, source, body, stage, parsed>>

Fetching == { <<r, i>> \in (1..Len(req)) \X (1..MaxPlaces) :
                 i <= Len(req[r].checks) /\ req[r].checks[i].pc = "fetching" }

Reading  == { <<r, i>> \in (1..Len(req)) \X (1..MaxPlaces) :
                 i <= Len(req[r].checks) /\ req[r].checks[i].pc = "body" }

\* check i of request r goes on as c
Continue(r, i, c) ==
    [req EXCEPT ![r] = Respond([req[r] EXCEPT !.checks[i] =
                                   With(c, "recent", req[r].checks[i].recent)], now)]

\* the race of the fetch and the timer ends without a response that is ok
FetchFails ==
    /\ \E ri \in Fetching, kind \in FetchFailures :
          \E c \in {CheckFailed(req[ri[1]].checks[ri[2]], req[ri[1]].places[ri[2]],
                                req[ri[1]].isbn, kind, now)} :
              /\ req' = Continue(ri[1], ri[2], c)
              /\ rateLimits' = AfterCheck(rateLimits, c, now)
    /\ UNCHANGED <<adapters, now, served, place, found, source, body, stage, parsed>>

\* the fetch wins the race with a response that is ok
ResponseOk ==
    /\ \E ri \in Fetching :
          LET r == ri[1]
              i == ri[2]
          IN  /\ ~UrlThrows(req[r].checks[i].url)
              /\ req' = [req EXCEPT ![r].checks[i].pc = "body"]
    /\ UNCHANGED <<adapters, rateLimits, now, served,
                   place, found, source, body, stage, parsed>>

\* response.text() gives the page: it is classified, and the rate limit is
\* updated when the classification returns
BodyArrives ==
    /\ \E ri \in Reading, page \in ServerPages :
          \E c \in {CheckParsed(req[ri[1]].checks[ri[2]], req[ri[1]].places[ri[2]],
                                req[ri[1]].isbn, page, now)} :
          LET r == ri[1]
              i == ri[2]
              n == req[r].checks[i].adapter.name
          IN  /\ req' = Continue(r, i, c)
              /\ rateLimits' = AfterCheck(rateLimits, c, now)
              /\ served' = [m \in DOMAIN served \cup {n} |->
                               IF m = n THEN now ELSE served[m]]
    /\ UNCHANGED <<adapters, now, place, found, source, body, stage, parsed>>

\* response.text() fails
BodyFails ==
    /\ \E ri \in Reading :
          \E c \in {CheckFailed(req[ri[1]].checks[ri[2]], req[ri[1]].places[ri[2]],
                                req[ri[1]].isbn, "transport", now)} :
              /\ req' = Continue(ri[1], ri[2], c)
              /\ rateLimits' = AfterCheck(rateLimits, c, now)
    /\ UNCHANGED <<adapters, now, served, place, found, source, body, stage, parsed>>

\* time passes
Tick ==
    /\ now < 1000 * (1 + MaxTicks)
    /\ now' = now + 1000
    /\ UNCHANGED <<adapters, rateLimits, served, req,
                   place, found, source, body, stage, parsed>>

Next == Receive \/ FetchFails \/ ResponseOk \/ BodyArrives \/ BodyFails \/ Tick

Spec == Init /\ [][Next]_vars

---------------------------------------------------------------------------
(* checkBookAvailability on its own: one check, for any adapter file, any *)
(* page and any place                                                      *)

\* the adapter file with where to search
Site(c) ==
    With(With(With(c, "base_url", B_Hpl), "search_endpoint", E_Search),
         "method", "GET")

EmptyPage == [html |-> <<>>, jsonld |-> <<>>]

\* the place of the check: one the adapter is found for, one that no
\* adapter is found for, one without a name
CheckPlaces(c) == { [name |-> c.name], [name |-> N_Corner], [types |-> "library"] }

InitCheck ==
    /\ source \in ConfigPool
    /\ place \in CheckPlaces(source)
    /\ body \in IF Has(place, "name") /\ place.name = source.name
                THEN PagePool ELSE {EmptyPage}
    /\ adapters \in {<<Site(source)>>}
                        \cup (IF body = EmptyPage THEN {<<source>>} ELSE {})
    /\ rateLimits \in {<< >>}
                        \cup (IF body = EmptyPage
                              THEN {updateRateLimit(<< >>, source.name, 1000)}
                              ELSE {})
    /\ now = 1000
    /\ stage = "start"
    /\ parsed = Pending
    /\ found = Pending
    /\ ServerIdle

\* the check runs up to its await
CheckBegins ==
    /\ stage = "start"
    /\ \E c \in {CheckStart(adapters, rateLimits, place, I_isbn, now)} :
          parsed' = c /\ stage' = c.pc
    /\ UNCHANGED <<adapters, rateLimits, now, place, found, source, body,
                   req, served>>

\* the fetch, or the reading of the body, fails
CheckFetchFails ==
    /\ stage = "fetching"
    /\ \E kind \in FetchFailures \cup {"transport"} :
          \E c \in {CheckFailed(parsed, place, I_isbn, kind, now)} :
              /\ parsed' = c
              /\ rateLimits' = AfterCheck(rateLimits, c, now)
    /\ stage' = "done"
    /\ UNCHANGED <<adapters, now, place, found, source, body, req, served>>

\* the page arrives and is classified
CheckPageArrives ==
    /\ stage = "fetching"
    /\ \E c \in {CheckParsed(parsed, place, I_isbn, body, now)} :
          /\ parsed' = c
          /\ rateLimits' = AfterCheck(rateLimits, c, now)
    /\ stage' = "done"
    /\ UNCHANGED <<adapters, now, place, found, source, body, req, served>>

NextCheck == CheckBegins \/ CheckFetchFails \/ CheckPageArrives

SpecCheck == InitCheck /\ [][NextCheck]_vars

---------------------------------------------------------------------------
(* The properties of the specification, each against the model *)

Statuses == {"available", "unavailable", "unknown", "rate_limited", "error"}

RecordFields ==
    {"isbn", "source", "status", "copies_available", "price", "branch",
     "call_number", "url", "last_checked", "confidence", "error"}

\* the check failed of itself: it was rejected, or its scrape threw
OwnFailure(c) == c.pc = "rejected" \/ Has(c, "failure")

\* C1: a batch of N places is answered with exactly N results, result i is
\* the outcome of the check of place i (its ISBN, and the name of place i or
\* of the adapter found for it), and result i has status error only if the
\* check of place i itself failed, whatever happened to the other checks and
\* in whatever order they completed.
BatchIsolation ==
    \A r \in 1..Len(req) :
        (req[r].phase = "responded" /\ req[r].response.code # 400) =>
            /\ req[r].response.code = 200
            /\ Len(req[r].response.report.results) = Len(req[r].places)
            /\ req[r].response.report.total_checked = Len(req[r].places)
            /\ \A i \in 1..Len(req[r].places) :
                  \E res \in {req[r].response.report.results[i]} :
                     \E c \in {req[r].checks[i]} :
                        /\ res.isbn = req[r].isbn
                        /\ c.pc = "done" => res = c.result
                        /\ Has(req[r].places[i], "name") =>
                              \/ res.source = req[r].places[i].name
                              \/ Scraped(c) /\ res.source = c.adapter.name
                        /\ res.status = "error" <=> OwnFailure(c)

\* C1, the case: a batch of two places whose first check failed at the fetch
\* and whose second found the book
BatchIsolationCase ==
    \E r \in 1..Len(req) :
        /\ req[r].phase = "responded"
        /\ Len(req[r].places) = 2
        /\ Has(req[r].checks[1], "failure")
        /\ req[r].response.report.results[1].status = "error"
        /\ req[r].response.report.results[2].status = "available"
        /\ req[r].response.report.available_count = 1

\* C2: a check that starts less than the rate limit of its adapter after the
\* adapter's site served a page whole (a fetch that succeeded) ends with
\* status rate_limited.
RecentFetchLimits ==
    \A r \in 1..Len(req) : \A i \in 1..Len(req[r].checks) :
        req[r].checks[i].recent =>
            /\ req[r].checks[i].pc = "done"
            /\ req[r].checks[i].result.status = "rate_limited"

\* the step settles check i of request r with a failure of the fetch
FetchFailedStep(r, i) ==
    /\ Len(req') = Len(req)
    /\ req[r].checks[i].pc \in {"fetching", "body"}
    /\ req'[r].checks[i].pc = "done"
    /\ Has(req'[r].checks[i], "failure")
    /\ req'[r].checks[i].failure \in {"timeout", "http", "transport"}

\* the step settles check i of request r with the result of a scrape, and
\* writes the time into the entry of its adapter
FetchSucceededStep(r, i) ==
    /\ Len(req') = Len(req)
    /\ req[r].checks[i].pc = "body"
    /\ req'[r].checks[i].pc = "done"
    /\ req'[r].checks[i].result.status # "error"
    /\ rateLimits' = updateRateLimit(rateLimits, req[r].checks[i].adapter.name, now)

\* C3: a step in which a check's fetch fails (timeout, a status that is not
\* ok, a transport error) leaves the rate-limit table as it was, and the table
\* changes only in a step in which a scrape returns.
FailedFetchKeepsTable ==
    [][ /\ \A r \in 1..Len(req) : \A i \in 1..Len(req[r].checks) :
              FetchFailedStep(r, i) => rateLimits' = rateLimits
        /\ rateLimits' # rateLimits =>
              \E r \in 1..Len(req) : \E i \in 1..Len(req[r].checks) :
                  FetchSucceededStep(r, i) ]_vars

\* C3, the case: a check whose fetch failed, with no entry for its adapter in
\* the table, so that the adapter is not rate-limited
FailedFetchCase ==
    \E r \in 1..Len(req) : \E i \in 1..Len(req[r].checks) :
        /\ Has(req[r].checks[i], "failure")
        /\ req[r].checks[i].failure \in {"timeout", "http", "transport"}
        /\ req[r].checks[i].adapter.name \notin DOMAIN rateLimits
        /\ ~isRateLimited(adapters, rateLimits, req[r].checks[i].adapter.name, now)

\* the registry entries that the place matches by rule 1, and by rule 2
DirectMatches ==
    { i \in 1..Len(adapters) :
        DirectNameMatch(ToLowerCase(adapters[i].name), PlaceName(place)) }

KeyTermMatches ==
    { j \in 1..Len(adapters) :
        KeyTermMatch(ToLowerCase(adapters[j].name), PlaceName(place),
                     PlaceVicinity(place)) }

\* C4: when the place matches one adapter by the direct name rule and another
\* by the key term rule, findAdapter returns an adapter the direct name rule
\* matches, in every order of the registry.
DirectNameWins ==
    ( /\ found # Pending
      /\ Has(place, "name")
      /\ \E i \in DirectMatches : \E j \in KeyTermMatches : i # j ) =>
        /\ found.kind = "adapter"
        /\ \E i \in DirectMatches : found.adapter = adapters[i]

\* a configured selector pattern of the side matches the page
SelectorMatches(side) ==
    \E k \in 1..Len(SelectorPatterns(source, side)) :
        /\ ~RegExpThrows(SelectorPatterns(source, side)[k])
        /\ RegExpMatch(body.html, SelectorPatterns(source, side)[k])

\* the page on which the special handling of Hamilton Public Library says
\* available
HamiltonSaysAvailable ==
    /\ source.name = HamiltonPublicLibrary
    /\ Includes(body.html, W_Available)
    /\ Includes(body.html, W_Book)
    /\ Includes(body.html, W_Visit)

ResultInRange ==
    stage = "done" =>
        /\ parsed.result.status \in Statuses
        /\ parsed.result.confidence \in 0..10

\* C6, the case: a scrape whose keyword stage met the cap of 0.7
ResultInRangeCase ==
    /\ stage = "done"
    /\ Scraped(parsed)
    /\ KeywordScore(ToLowerCase(body.html),
                    Keywords(source, "fallback_keywords", "available")) > 5
    /\ parsed.result.confidence = 7

\* C7: the result of a check, on whatever path it was made, has every field
\* of the record.
ResultFullyPopulated ==
    stage = "done" => DOMAIN parsed.result = RecordFields

\* the adapter declares structured data, and block k of the page is parsed,
\* typed Book or Product, and holds an availability string in which a status
\* keyword of the available list occurs
DeclaresStructuredData == Flag(source, "schema_org") \/ Flag(source, "json_ld")

AvailabilityOf(data) ==
    Or(Get(Get(data, "offers"), "availability"), Get(data, "availability"))

SaysAvailable(k) ==
    /\ body.jsonld[k].parse = "ok"
    /\ Get(body.jsonld[k].data, "type") \in {Str(W_Book), Str(W_Product)}
    /\ IsString(AvailabilityOf(body.jsonld[k].data))
    /\ Has(AvailabilityOf(body.jsonld[k].data), "v")
    /\ \E n \in 1..Len(Keywords(source, "status_keywords", "available")) :
          Includes(ToLowerCase(AvailabilityOf(body.jsonld[k].data).v),
                   ToLowerCase(Keywords(source, "status_keywords", "available")[n]))

\* C8: for an adapter that declares structured data, a page with a block that
\* says available by a status keyword is classified available, at 0.8, with
\* one copy.
StructuredDataDecides ==
    ( /\ stage = "returned"
      /\ DeclaresStructuredData
      /\ \E k \in 1..Len(body.jsonld) : SaysAvailable(k) ) =>
        /\ parsed.status = "available"
        /\ parsed.confidence = 8
        /\ parsed.copies_available = 1

\* C9: a check never raises: it ends with a result, and a failure inside it
\* ends as a result with status error and a message.
CheckNeverRaises ==
    stage \notin {"start", "fetching"} =>
        /\ stage = "done"
        /\ Has(parsed, "failure") =>
              parsed.result.status = "error" /\ IsString(parsed.result.error)

\* the table holds an entry for the adapter that is younger than its limit
InWindow(name) ==
    /\ name \in DOMAIN rateLimits
    /\ now - rateLimits[name] < RateLimitMs(adapters, name)

\* check c of place p, as it stands when the handler has started it
GatedAtStart(p, c) ==
    \E f \in {findAdapter(adapters, p)} :
        /\ f.kind \in {"null", "undefined"} =>
              /\ c.pc = "done" /\ ~c.fetched
              /\ c.result.status = "unknown"
              /\ IsString(c.result.error)
        /\ (f.kind = "adapter" /\ InWindow(f.adapter.name)) =>
              /\ c.pc = "done" /\ ~c.fetched
              /\ c.result.status = "rate_limited"

\* C10: when a request arrives, the check of a place that no adapter is found
\* for is done at once with status unknown and an error, the check of a place
\* whose adapter is rate-limited is done at once with status rate_limited,
\* neither goes to the network, and the rate-limit table is left as it was.
GatesSkipTheFetch ==
    [][ Len(req') = Len(req) + 1 =>
          /\ rateLimits' = rateLimits
          /\ \A i \in 1..Len(req'[Len(req')].checks) :
                GatedAtStart(req'[Len(req')].places[i], req'[Len(req')].checks[i]) ]_vars

\* C10, the case: a batch with a place no adapter is found for and a place
\* whose adapter is rate-limited
GatesSkipTheFetchCase ==
    \E r \in 1..Len(req) :
        /\ Len(req[r].checks) = 2
        /\ req[r].checks[1].pc = "done" /\ ~req[r].checks[1].fetched
        /\ req[r].checks[1].result.status = "unknown"
        /\ req[r].checks[2].pc = "done" /\ ~req[r].checks[2].fetched
        /\ req[r].checks[2].result.status = "rate_limited"
        /\ InWindow(req[r].checks[2].adapter.name)

\* a string holds another that is not empty
Shares(s, t) == t # <<>> /\ Includes(s, t)

\* the hostnames of the place's website and of the adapter's base_url overlap
HostnamesOverlap(p, a) ==
    /\ Has(p, "website") /\ ~UrlThrows(p.website)
    /\ Has(a, "base_url") /\ ~UrlThrows(a.base_url)
    /\ \/ Includes(Hostname(p.website), Hostname(a.base_url))
       \/ Includes(Hostname(a.base_url), Hostname(p.website))

\* the place shares nothing with any adapter of the registry: no text of
\* either name inside the other, no key term, no hostname, no pattern
SharesNothing ==
    /\ Has(place, "name")
    /\ \A i \in 1..Len(adapters) :
          /\ ~Shares(PlaceName(place), ToLowerCase(adapters[i].name))
          /\ ~Shares(ToLowerCase(adapters[i].name), PlaceName(place))
          /\ ~KeyTermMatch(ToLowerCase(adapters[i].name), PlaceName(place),
                           PlaceVicinity(place))
          /\ ~HostnamesOverlap(place, adapters[i])
    /\ PatternHits(place) = {}

\* C11: for a place that shares nothing with any adapter of the registry,
\* the place with an empty name among them, findAdapter returns no match.
NothingSharedNoMatch ==
    (found # Pending /\ SharesNothing) => found.kind = "null"

\* C12: the result of a check for which an adapter was found, the
\* rate_limited and error results among them, names the adapter as its
\* source; the name of the place is the source only when none was found.
SourceIsTheAdapter ==
    \A r \in 1..Len(req) : \A i \in 1..Len(req[r].checks) :
        req[r].checks[i].pc = "done" =>
            /\ Has(req[r].checks[i].result, "source")
            /\ req[r].checks[i].result.source =
                  IF Has(req[r].checks[i], "adapter")
                  THEN req[r].checks[i].adapter.name
                  ELSE req[r].places[i].name

---------------------------------------------------------------------------
(* The search URL of scrapeAvailability on its own: any endpoint template, *)
(* any ISBN text                                                           *)

\* the adapter's base_url and search_endpoint, and the isbn of the call
InitUrl ==
    /\ source \in
          { [name |-> N_Corner, base_url |-> b, search_endpoint |-> e] :
              b \in { B_Hpl, <<"h","t","t","p",":","/","/","a",".","c","a">>,
                      <<"l","i","b",".","c","a">> },
              e \in { E_Search,
                      <<"/","{","i","s","b","n","}","/","{","i","s","b","n","}">>,
                      <<"/","b","o","o","k","s">>,
                      <<"/","b","/","{","i","s","b","n","}",".","j","s","o","n">> } }
    /\ parsed \in
          { [isbn |-> i] :
              i \in { I_isbn, <<>>, <<"9","7","8">>, <<"$","&">>,
                      <<"9","$","$","7">>, <<"9","7","$","&","8">>,
                      <<"$","9","7","8">> } }
    /\ stage = "start"
    /\ place = [types |-> "none"]
    /\ found = Pending
    /\ body = EmptyPage
    /\ adapters = << >>
    /\ rateLimits = << >>
    /\ now = 1000
    /\ ServerIdle

\* line 168: const url = `${adapter.base_url}${...replace('{isbn}', isbn)}`
BuildUrl ==
    /\ stage = "start"
    /\ parsed' = With(parsed, "url", SearchUrl(source, parsed.isbn))
    /\ stage' = "built"
    /\ UNCHANGED <<adapters, rateLimits, now, place, found, source, body,
                   req, served>>

SpecUrl == InitUrl /\ [][BuildUrl]_vars

\* the template with every placeholder replaced by the text as it is
RECURSIVE Filled(_, _)
Filled(template, isbn) ==
    IF ~Includes(template, Placeholder) THEN template
    ELSE LET i == Min(Occurrences(template, Placeholder))
         IN  SubSeq(template, 1, i) \o isbn
                 \o Filled(SubSeq(template, i + Len(Placeholder) + 1, Len(template)), isbn)

\* C13: the search URL is the base URL followed by the endpoint template in
\* which every ISBN placeholder is replaced by the ISBN text as it is; no
\* placeholder and nothing else of the substitution is left in it.
UrlFilledVerbatim ==
    stage = "built" =>
        parsed.url = source.base_url \o Filled(source.search_endpoint, parsed.isbn)

---------------------------------------------------------------------------
(* The server with its timers: the setTimeout of a fetch that is still in  *)
(* the race fires; the remote site owes nothing                            *)

\* the timer of check i of request r rejects the race (lines 174-176, 193)
TimerFires(r, i) ==
    /\ <<r, i>> \in Fetching
    /\ \E c \in {CheckFailed(req[r].checks[i], req[r].places[i],
                             req[r].isbn, "timeout", now)} :
          /\ req' = Continue(r, i, c)
          /\ rateLimits' = AfterCheck(rateLimits, c, now)
    /\ UNCHANGED <<adapters, now, served, place, found, source, body, stage, parsed>>

SpecTimed ==
    Spec /\ \A r \in 1..MaxRequests : \A i \in 1..MaxPlaces : WF_vars(TimerFires(r, i))

\* check i of request r has not settled
InFlight(r, i) ==
    /\ r <= Len(req)
    /\ i <= Len(req[r].checks)
    /\ ~Settled(req[r].checks[i])

\* C14: every check of a place completes once its timer has fired, whatever
\* the remote site does, and so every batch gets its report.
EveryCheckCompletes ==
    /\ \A r \in 1..MaxRequests : \A i \in 1..MaxPlaces :
          InFlight(r, i) ~> ~InFlight(r, i)
    /\ \A r \in 1..MaxRequests :
          (r <= Len(req) /\ req[r].phase = "running")
              ~> ~(r <= Len(req) /\ req[r].phase = "running")

\* the checks of request r that went to the network for the adapter named n
FetchesFor(r, n) ==
    { i \in 1..Len(req[r].checks) :
        /\ Has(req[r].checks[i], "adapter")
        /\ req[r].checks[i].adapter.name = n
        /\ req[r].checks[i].fetched }

\* C15: whatever the interleaving of checks of the same source, the
\* rate-limit table is well-formed: its entries are for adapters of the
\* registry, each adapter has one timestamp, none in the future, and it is
\* no older than any scrape of that adapter that has returned.
TableWellFormed ==
    /\ DOMAIN rateLimits \subseteq { adapters[k].name : k \in 1..Len(adapters) }
    /\ \A n \in DOMAIN rateLimits : rateLimits[n] \in Nat /\ rateLimits[n] <= now
    /\ \A r \in 1..Len(req) : \A i \in 1..Len(req[r].checks) :
          (req[r].checks[i].pc = "done" /\ req[r].checks[i].fetched
                /\ ~Has(req[r].checks[i], "failure"))
            => /\ req[r].checks[i].adapter.name \in DOMAIN rateLimits
               /\ rateLimits[req[r].checks[i].adapter.name]
                     >= req[r].checks[i].result.last_checked

\* two checks of one request went to the network for the same adapter: both
\* saw it not limited; one has returned and written the timestamp, and the
\* other is still in flight inside the window that timestamp opens
TwoFetchesInOneWindow ==
    \E r \in 1..Len(req) : \E n \in DOMAIN rateLimits :
        \E i, j \in FetchesFor(r, n) :
            /\ i # j
            /\ req[r].checks[i].pc = "done" /\ ~Has(req[r].checks[i], "failure")
            /\ req[r].checks[j].pc \in {"fetching", "body"}
            /\ now - rateLimits[n] < RateLimitMs(adapters, n)

\* the number of distinct keywords of the list that the text holds
DistinctScore(text, kws) ==
    Cardinality({ kws[k] : k \in { j \in 1..Len(kws) : Includes(text, ToLowerCase(kws[j])) } })

\* the keyword stage as stated: one point for each distinct keyword present,
\* the side with the strictly higher count, min(0.7, 0.2 * count)
StatedKeywordResult(page_html, adapter) ==
    LET text == ToLowerCase(page_html)
        av   == DistinctScore(text, Keywords(adapter, "fallback_keywords", "available"))
        un   == DistinctScore(text, Keywords(adapter, "fallback_keywords", "unavailable"))
    IN  IF av > un THEN [status |-> "available", confidence |-> Min({7, 2 * av})]
        ELSE IF un > av THEN [status |-> "unavailable", confidence |-> Min({7, 2 * un})]
        ELSE [status |-> "unknown", confidence |-> 0]

\* C16: the keyword stage counts one point for each distinct configured
\* keyword that the lower-cased page holds; the side with the strictly
\* higher count gives the status, a tie gives unknown with confidence 0, the
\* confidence is min(0.7, 0.2 * count); the stage is applied only when the
\* confidence after the selectors is below 0.5 and below the keyword
\* confidence.
KeywordStageAsStated ==
    [][(stage = "fallback" /\ stage' = "returned") =>
          LET k == StatedKeywordResult(body.html, source)
          IN  IF parsed.confidence < 5 /\ k.confidence > parsed.confidence
              THEN /\ parsed'.status = k.status
                   /\ parsed'.confidence = k.confidence
              ELSE parsed' = parsed]_vars

\* C17: the keyword stage, when it is applied, changes only status and
\* confidence of the result: copies_available, price, branch, call_number
\* and url keep the values the selector stage left.
KeywordStageFrame ==
    [][(stage = "fallback" /\ stage' = "returned") =>
          /\ DOMAIN parsed' = DOMAIN parsed
          /\ \A f \in DOMAIN parsed \ {"status", "confidence"} : parsed'[f] = parsed[f]
          /\ {"copies_available", "price", "branch", "call_number", "url"}
                \subseteq DOMAIN parsed]_vars

\* parseHTML has returned a result that the keyword stage classified
KeywordStageApplied ==
    /\ stage = "returned"
    /\ ~StructuredAccepted(source, body)
    /\ parsed.status = "available"
    /\ parsed.confidence = classifyByKeywords(body.html, source).confidence
    /\ parsed.confidence \in {2, 4, 6, 7}
    /\ parsed.copies_available = 0
    /\ parsed.url # Null

---------------------------------------------------------------------------
(* isRateLimited on its own: any adapter file, any table entry, any time   *)

\* the registry holds one adapter; the table holds its timestamp or nothing
InitLimit ==
    /\ adapters \in { <<a>> : a \in AdapterPool }
    /\ rateLimits \in {<< >>}
          \cup { updateRateLimit(<< >>, adapters[1].name, t) : t \in {1000, 1500, 2000} }
    /\ now \in {2000, 2500, 2999, 3000, 3999, 4000}
    /\ stage = "start"
    /\ parsed = Pending
    /\ source = [name |-> <<>>]
    /\ body = EmptyPage
    /\ MatcherIdle
    /\ ServerIdle

\* isRateLimited(adapterName) is called at the time now
AskLimit ==
    /\ stage = "start"
    /\ parsed' = [kind |-> "ok",
                  limited |-> isRateLimited(adapters, rateLimits, adapters[1].name, now)]
    /\ stage' = "returned"
    /\ UNCHANGED <<adapters, rateLimits, now, place, found, source, body,
                   req, served>>

SpecLimit == InitLimit /\ [][AskLimit]_vars

\* the rate-limit window of the adapter file, in seconds: its rate_limit,
\* and 1 only when it has none
ConfiguredSeconds(a) == IF Has(a, "rate_limit") THEN a.rate_limit ELSE 1

\* C18: isRateLimited is true exactly when the table holds a timestamp of
\* the adapter and less than its configured seconds * 1000 milliseconds have
\* passed since; the window is 1 second only when none is configured.
WindowAsConfigured ==
    stage = "returned" =>
        (parsed.limited <=>
            /\ adapters[1].name \in DOMAIN rateLimits
            /\ now - rateLimits[adapters[1].name] < ConfiguredSeconds(adapters[1]) * 1000)

\* rules 1 to 3 select nothing for the place
RulesSelectNothing ==
    /\ Has(place, "name")
    /\ NameLoopHits(adapters, place) = {}
    /\ DomainHits(adapters, place) = {}

\* C19: when rules 1 to 3 select nothing, the first pattern of the table, in
\* its order, that matches the place's name or vicinity selects the adapter
\* it names; and what findAdapter answers for a place is a record of the
\* registry or no match.
PatternTableDecides ==
    (found # Pending /\ Has(place, "name")) =>
        /\ found.kind \in {"adapter", "null", "undefined"}
        /\ found.kind = "adapter" =>
              \E i \in 1..Len(adapters) : adapters[i] = found.adapter
        /\ RulesSelectNothing =>
              IF PatternHits(place) = {} THEN found.kind = "null"
              ELSE LET named == libraryPatterns[Min(PatternHits(place))].adapter
                   IN  IF \E i \in 1..Len(adapters) : adapters[i].name = named
                       THEN found.kind = "adapter" /\ found.adapter.name = named
                       ELSE found.kind \in {"null", "undefined"}

\* the pattern table selected an adapter of the registry that no rule before
\* it had selected, for a place that more than one adapter is registered for
PatternTableSelected ==
    /\ found # Pending
    /\ RulesSelectNothing
    /\ PatternHits(place) # {}
    /\ found.kind = "adapter"
    /\ Len(adapters) > 1

\* C20: every result of the classifier with status unavailable has
\* copies_available = 0, also when an available selector pattern matched
\* before an unavailable pattern overrode the status.
UnavailableHasNoCopies ==
    (stage = "returned" /\ parsed.status = "unavailable") =>
        parsed.copies_available = 0

\* the places of the batch that the adapter named n is found for
ResolvingTo(rq, n) ==
    { i \in 1..Len(rq.places) :
        \E f \in {findAdapter(adapters, rq.places[i])} :
            f.kind = "adapter" /\ f.adapter.name = n }

\* the checks of the batch that wait for a fetch from the adapter named n
FetchingFrom(rq, n) ==
    { i \in 1..Len(rq.checks) :
        /\ rq.checks[i].pc = "fetching" /\ rq.checks[i].fetched
        /\ rq.checks[i].adapter.name = n }

\* the batch as the handler has started it, against the table before it
GatedTogether(rq) ==
    \A n \in { adapters[k].name : k \in 1..Len(adapters) } :
        IF InWindow(n)
        THEN \A i \in ResolvingTo(rq, n) :
                /\ rq.checks[i].pc = "done" /\ ~rq.checks[i].fetched
                /\ rq.checks[i].result.status = "rate_limited"
        ELSE /\ FetchingFrom(rq, n) = ResolvingTo(rq, n)
             /\ \A i \in ResolvingTo(rq, n) : ~Has(rq.checks[i], "result")

\* C21: within one batch every place's rate-limit gate is evaluated before
\* any check of the batch writes a timestamp: a place is reported
\* rate_limited only for an entry the table held before the batch, and k
\* places of an adapter that is not limited give k fetches.
BatchGatedBeforeWrites ==
    [][ Len(req') = Len(req) + 1 => GatedTogether(req'[Len(req')]) ]_vars

\* a batch of two places of the same adapter, which was not limited: both
\* checks wait for their fetch
TwoFetchesOfOneBatch ==
    \E r \in 1..Len(req) : \E n \in { adapters[k].name : k \in 1..Len(adapters) } :
        /\ req[r].phase = "running"
        /\ Cardinality(ResolvingTo(req[r], n)) = MaxPlaces
        /\ FetchingFrom(req[r], n) = ResolvingTo(req[r], n)
        /\ ~InWindow(n)

=============================================================================
